---- MODULE Spec2Model ----
(***************************************************************************)
(* Jet Engine Tachometer Simulator (Tachometer_Simulator1.2.cpp).          *)
(*                                                                         *)
(* The model has three parts:                                              *)
(*   - the arithmetic of the program's double and int values,              *)
(*   - the classes EnginePowerModel, RPMSource and FlightHours,            *)
(*   - main(): open the log, 3000 ticks, the diagnostic policy.            *)
(*                                                                         *)
(* A double is modelled as a sign and a fixed-point magnitude with         *)
(* FxScale units per 1.0; every double operation is the exact operation    *)
(* followed by rounding to that grid.  The grid is far coarser than the    *)
(* 53-bit significand of the build, so the rounding error of the model     *)
(* bounds that of the program from above.  Magnitudes are kept in four     *)
(* limbs of 15 bits because the values the claims speak of exceed the      *)
(* 32-bit int.                                                             *)
(***************************************************************************)
EXTENDS Integers, Sequences, FiniteSets, TLC

VARIABLES
    pc,               \* position of main(): open, header, drive, accumulate, row, diag, done, failed
    tick,             \* main: int tick
    rng,              \* RPMSource::rng
    m_raw_rpm,        \* EnginePowerModel::m_raw_rpm (double)
    m_filtered_rpm,   \* EnginePowerModel::m_filtered_rpm (int)
    m_powerband,      \* EnginePowerModel::m_powerband
    total_seconds,    \* FlightHours::total_seconds
    caution_seconds,  \* FlightHours::caution_seconds
    redline_seconds,  \* FlightHours::redline_seconds
    log_file,         \* flight_log.csv: stream state, header rows, data rows, rows not PowerOff, last row
    cout_band,        \* lines the latest update_from_rpm / drive_engine call wrote to std::cout
    cout_final,       \* the verdict lines main wrote to std::cout
    exit_code,        \* return value of main, NoExit while running
    last_call         \* the latest member-function call and its arguments

vars == <<pc, tick, rng, m_raw_rpm, m_filtered_rpm, m_powerband,
          total_seconds, caution_seconds, redline_seconds,
          log_file, cout_band, cout_final, exit_code, last_call>>

engine_vars == <<m_raw_rpm, m_filtered_rpm, m_powerband, cout_band>>
flight_vars == <<total_seconds, caution_seconds, redline_seconds>>
main_vars == <<pc, tick, log_file, cout_final, exit_code>>

(***************************************************************************)
(* Bounds of the model.                                                    *)
(***************************************************************************)
\* seeds std::random_device may hand to the generator
NumSeeds == 3
\* every integer rpm 0..MaxRpmLow is an input of the round trip
MaxRpmLow == 12
\* the class-level specification stops accumulating past this many seconds
MaxUnitSeconds == 180

(***************************************************************************)
(* double and int arithmetic                                               *)
(***************************************************************************)
Limb == 2^15
FxScale == 2^10
IntMax == (2^30 - 1) + 2^30
IntMin == (-2) * 2^30

\* the four limbs of the natural number n, least significant first
Digits(n) ==
    <<n % Limb, (n \div Limb) % Limb, (n \div Limb) \div Limb, 0>>

\* w * n + carry on limbs
MulAdd(w, n, carry) ==
    LET p1 == w[1] * n + carry
        p2 == w[2] * n + p1 \div Limb
        p3 == w[3] * n + p2 \div Limb
        p4 == w[4] * n + p3 \div Limb
    IN  <<p1 % Limb, p2 % Limb, p3 % Limb, p4 % Limb>>

\* long division of the limbs of w by d: quotient limbs and remainder
DivRem(w, d) ==
    LET c4 == w[4]
        c3 == (c4 % d) * Limb + w[3]
        c2 == (c3 % d) * Limb + w[2]
        c1 == (c2 % d) * Limb + w[1]
    IN  [q |-> <<c1 \div d, c2 \div d, c3 \div d, c4 \div d>>, r |-> c1 % d]

\* w / d rounded to the nearest unit
DivRound(w, d) ==
    LET qr == DivRem(w, d)
    IN  IF 2 * qr.r >= d THEN MulAdd(qr.q, 1, 1) ELSE qr.q

\* a + b on limbs
AddLimbs(a, b) ==
    LET t1 == a[1] + b[1]
        t2 == a[2] + b[2] + t1 \div Limb
        t3 == a[3] + b[3] + t2 \div Limb
        t4 == a[4] + b[4] + t3 \div Limb
    IN  <<t1 % Limb, t2 % Limb, t3 % Limb, t4 % Limb>>

\* a <= b on limbs
LimbsLeq(a, b) ==
    IF a[4] # b[4] THEN a[4] < b[4]
    ELSE IF a[3] # b[3] THEN a[3] < b[3]
    ELSE IF a[2] # b[2] THEN a[2] < b[2]
    ELSE a[1] <= b[1]

\* the double n + f/FxScale, n and f natural numbers
DFrac(n, f) == [neg |-> FALSE, mag |-> MulAdd(Digits(n), FxScale, f)]
\* the double of a natural number
DNat(n) == DFrac(n, 0)
DNeg(x) == [x EXCEPT !.neg = ~x.neg]
\* x + y for doubles x, y >= 0
DAdd(x, y) == [x EXCEPT !.mag = AddLimbs(x.mag, y.mag)]
\* x * n, n a small natural number: exact
DMulInt(x, n) == [x EXCEPT !.mag = MulAdd(x.mag, n, 0)]
\* x * (num/den), rounded
DMulRat(x, num, den) == [x EXCEPT !.mag = DivRound(MulAdd(x.mag, num, 0), den)]
\* a <= b for doubles a, b >= 0
DLeq(a, b) == LimbsLeq(a.mag, b.mag)

\* std::lround: nearest integer, halfway cases away from zero; a long
lround(x) ==
    [neg |-> x.neg,
     mag |-> DivRem(MulAdd(x.mag, 1, FxScale \div 2), FxScale).q]

\* static_cast<int> of a long: the low 32 bits, two's complement
static_cast_int(l) ==
    LET low30 == l.mag[1] + l.mag[2] * Limb
        top2  == l.mag[3] % 4
        s     == IF top2 < 2 THEN top2 * 2^30 + low30
                 ELSE (top2 - 4) * 2^30 + low30
    IN  IF ~l.neg \/ s = IntMin THEN s ELSE -s

(***************************************************************************)
(* EnginePowerBand, EnginePowerModel                                       *)
(***************************************************************************)
EnginePowerBand ==
    {"PowerOff", "Idle", "Climb", "Cruise", "Caution", "RedLine", "OverLimit"}

Idle_min == 1000
Idle_max == 3500
Climb_min == 3501
Climb_max == 6000
Cruise_min == 6001
Cruise_max == 9000
Caution_min == 9001
Caution_max == 9799
RedLine_min == 9800
RedLine_max == 10200

\* k_pi = 3.141592653589793, as the fraction k_pi_num / k_pi_den
k_pi_num == 355
k_pi_den == 113

\* rpm_value = (angular_speed_rad_per_sec * 60.0) / (2.0 * k_pi)
rpm_value_of(angular_speed_rad_per_sec) ==
    DMulRat(DMulInt(angular_speed_rad_per_sec, 60), k_pi_den, 2 * k_pi_num)

\* the lines update_from_rpm can print, one per branch that prints
BandMessages ==
    {"RPM Below Idle: Engine not in normal operating band.",
     "Idle: Value is within range.",
     "Climb: Value is within range.",
     "Cruise: Value is within range.",
     "Caution: Engine is reaching Redline.",
     "Warning: Engine may overheat.",
     "WARNING: RPM ABOVE Defined RedLine (OverLimit)."}

\* the chain with RedLine_max excluded from the RedLine band
classify_mut_boundary(filtered_rpm) ==
    IF filtered_rpm = 0 THEN
        [band |-> "PowerOff", out |-> <<>>]
    ELSE IF filtered_rpm < Idle_min THEN
        [band |-> "PowerOff",
         out  |-> <<"RPM Below Idle: Engine not in normal operating band.">>]
    ELSE IF filtered_rpm >= Idle_min /\ filtered_rpm <= Idle_max THEN
        [band |-> "Idle", out |-> <<"Idle: Value is within range.">>]
    ELSE IF filtered_rpm >= Climb_min /\ filtered_rpm <= Climb_max THEN
        [band |-> "Climb", out |-> <<"Climb: Value is within range.">>]
    ELSE IF filtered_rpm >= Cruise_min /\ filtered_rpm <= Cruise_max THEN
        [band |-> "Cruise", out |-> <<"Cruise: Value is within range.">>]
    ELSE IF filtered_rpm >= Caution_min /\ filtered_rpm <= Caution_max THEN
        [band |-> "Caution", out |-> <<"Caution: Engine is reaching Redline.">>]
    ELSE IF filtered_rpm >= RedLine_min /\ filtered_rpm < RedLine_max THEN
        [band |-> "RedLine", out |-> <<"Warning: Engine may overheat.">>]
    ELSE
        [band |-> "OverLimit",
         out  |-> <<"WARNING: RPM ABOVE Defined RedLine (OverLimit).">>]

\* the chain with the Idle branch printing nothing
classify_mut_silent(filtered_rpm) ==
    IF filtered_rpm = 0 THEN
        [band |-> "PowerOff", out |-> <<>>]
    ELSE IF filtered_rpm < Idle_min THEN
        [band |-> "PowerOff",
         out  |-> <<"RPM Below Idle: Engine not in normal operating band.">>]
    ELSE IF filtered_rpm >= Idle_min /\ filtered_rpm <= Idle_max THEN
        [band |-> "Idle", out |-> <<>>]
    ELSE IF filtered_rpm >= Climb_min /\ filtered_rpm <= Climb_max THEN
        [band |-> "Climb", out |-> <<"Climb: Value is within range.">>]
    ELSE IF filtered_rpm >= Cruise_min /\ filtered_rpm <= Cruise_max THEN
        [band |-> "Cruise", out |-> <<"Cruise: Value is within range.">>]
    ELSE IF filtered_rpm >= Caution_min /\ filtered_rpm <= Caution_max THEN
        [band |-> "Caution", out |-> <<"Caution: Engine is reaching Redline.">>]
    ELSE IF filtered_rpm >= RedLine_min /\ filtered_rpm <= RedLine_max THEN
        [band |-> "RedLine", out |-> <<"Warning: Engine may overheat.">>]
    ELSE
        [band |-> "OverLimit",
         out  |-> <<"WARNING: RPM ABOVE Defined RedLine (OverLimit).">>]

\* the if / else-if chain of update_from_rpm: the band set and the lines printed
classify(filtered_rpm) ==
    IF filtered_rpm = 0 THEN
        [band |-> "PowerOff", out |-> <<>>]
    ELSE IF filtered_rpm < Idle_min THEN
        [band |-> "PowerOff",
         out  |-> <<"RPM Below Idle: Engine not in normal operating band.">>]
    ELSE IF filtered_rpm >= Idle_min /\ filtered_rpm <= Idle_max THEN
        [band |-> "Idle", out |-> <<"Idle: Value is within range.">>]
    ELSE IF filtered_rpm >= Climb_min /\ filtered_rpm <= Climb_max THEN
        [band |-> "Climb", out |-> <<"Climb: Value is within range.">>]
    ELSE IF filtered_rpm >= Cruise_min /\ filtered_rpm <= Cruise_max THEN
        [band |-> "Cruise", out |-> <<"Cruise: Value is within range.">>]
    ELSE IF filtered_rpm >= Caution_min /\ filtered_rpm <= Caution_max THEN
        [band |-> "Caution", out |-> <<"Caution: Engine is reaching Redline.">>]
    ELSE IF filtered_rpm >= RedLine_min /\ filtered_rpm <= RedLine_max THEN
        [band |-> "RedLine", out |-> <<"Warning: Engine may overheat.">>]
    ELSE
        [band |-> "OverLimit",
         out  |-> <<"WARNING: RPM ABOVE Defined RedLine (OverLimit).">>]

\* the conversion to int without std::lround: truncation towards zero
filtered_mut_truncate(raw_rpm) ==
    static_cast_int([neg |-> raw_rpm.neg,
                     mag |-> DivRem(raw_rpm.mag, FxScale).q])

\* m_filtered_rpm = static_cast<int>(std::lround(m_raw_rpm))
filtered_of(raw_rpm) == static_cast_int(lround(raw_rpm))

\* EnginePowerModel::update_from_rpm: the three members and the lines printed
update_from_rpm(angular_speed_rad_per_sec) ==
    LET raw == rpm_value_of(angular_speed_rad_per_sec)
        f   == filtered_of(raw)
        c   == classify(f)
    IN  [raw_rpm |-> raw, filtered_rpm |-> f, powerband |-> c.band, out |-> c.out]

(***************************************************************************)
(* RPMSource                                                               *)
(***************************************************************************)
\* A draw of uniform_real_distribution(0.0, 1.0) is k / CanonDen, 0 <= k < CanonDen
CanonDen == 2^15

\* std::mt19937 is library code: a deterministic generator stepped once per
\* draw.  It is modelled by a full-period congruential generator on
\* 0..CanonDen-1 whose state is its latest output.
rng_step(s) == (s * 20077 + 12345) % CanonDen

\* rng(std::random_device{}()): the generator state for seed number n
rng_seeded(n) == (n * 7919 + 4001) % CanonDen

\* pi = 3.141592653589793 of drive_engine, as the fraction pi_num / pi_den
pi_num == 355
pi_den == 113

\* the cascade with the Caution range reaching up to 9800
select_range_mut(p) ==
    IF p * 100 < 5 * CanonDen THEN [rpm_min |-> 0, rpm_max |-> 900]
    ELSE IF p * 100 < 20 * CanonDen THEN [rpm_min |-> 1000, rpm_max |-> 3500]
    ELSE IF p * 100 < 45 * CanonDen THEN [rpm_min |-> 3501, rpm_max |-> 6000]
    ELSE IF p * 100 < 80 * CanonDen THEN [rpm_min |-> 6001, rpm_max |-> 9000]
    ELSE IF p * 100 < 92 * CanonDen THEN [rpm_min |-> 9001, rpm_max |-> 9800]
    ELSE IF p * 100 < 98 * CanonDen THEN [rpm_min |-> 9800, rpm_max |-> 10200]
    ELSE [rpm_min |-> 10201, rpm_max |-> 11000]

\* the cascade on p (p < 0.05, p < 0.20, ...): rpm_min and rpm_max
select_range(p) ==
    IF p * 100 < 5 * CanonDen THEN [rpm_min |-> 0, rpm_max |-> 900]
    ELSE IF p * 100 < 20 * CanonDen THEN [rpm_min |-> 1000, rpm_max |-> 3500]
    ELSE IF p * 100 < 45 * CanonDen THEN [rpm_min |-> 3501, rpm_max |-> 6000]
    ELSE IF p * 100 < 80 * CanonDen THEN [rpm_min |-> 6001, rpm_max |-> 9000]
    ELSE IF p * 100 < 92 * CanonDen THEN [rpm_min |-> 9001, rpm_max |-> 9799]
    ELSE IF p * 100 < 98 * CanonDen THEN [rpm_min |-> 9800, rpm_max |-> 10200]
    ELSE [rpm_min |-> 10201, rpm_max |-> 11000]

\* rpm_dist(rng): rpm_min + (rpm_max - rpm_min) * u / CanonDen, a double
rpm_dist(range, u) ==
    LET span == MulAdd(Digits((range.rpm_max - range.rpm_min) * FxScale), u, 0)
    IN  [neg |-> FALSE,
         mag |-> MulAdd(DivRound(span, CanonDen), 1, range.rpm_min * FxScale)]

\* omega = (rpm * 2.0 * pi) / 60.0
omega_of(rpm) == DMulRat(DMulRat(DMulInt(rpm, 2), pi_num, pi_den), 1, 60)

NoCall ==
    [op |-> "none", rpm_min |-> 0, rpm_max |-> 0, rpm |-> DNat(0),
     omega |-> DNat(0), delta_seconds |-> DNat(0)]

\* RPMSource::drive_engine from its two draws p and u on
drive_engine(p, u) ==
    LET range == select_range(p)
        rpm   == rpm_dist(range, u)
        omega == omega_of(rpm)
        e     == update_from_rpm(omega)
    IN  /\ m_raw_rpm' = e.raw_rpm
        /\ m_filtered_rpm' = e.filtered_rpm
        /\ m_powerband' = e.powerband
        /\ cout_band' = e.out \o <<"RPMSource drove engine with rpm">>
        /\ last_call' = [op |-> "drive_engine", rpm_min |-> range.rpm_min,
                         rpm_max |-> range.rpm_max, rpm |-> rpm,
                         omega |-> omega, delta_seconds |-> DNat(0)]

(***************************************************************************)
(* FlightHours                                                             *)
(***************************************************************************)
\* flight_log_hours with every counter assigned instead of incremented
flight_log_hours_mut_assign(delta_seconds) ==
    LET band  == m_powerband
        delta == static_cast_int(lround(delta_seconds))
    IN  /\ total_seconds' =
              IF band # "PowerOff" THEN delta ELSE total_seconds
        /\ caution_seconds' =
              IF band = "Caution" THEN delta ELSE caution_seconds
        /\ redline_seconds' =
              IF band = "RedLine" \/ band = "OverLimit"
              THEN delta ELSE redline_seconds

\* flight_log_hours with the Caution branch adding to total_seconds again
flight_log_hours_mut_copy(delta_seconds) ==
    LET band  == m_powerband
        delta == static_cast_int(lround(delta_seconds))
    IN  /\ total_seconds' =
              IF band = "Caution" THEN total_seconds + delta + delta
              ELSE IF band # "PowerOff" THEN total_seconds + delta
              ELSE total_seconds
        /\ caution_seconds' = caution_seconds
        /\ redline_seconds' =
              IF band = "RedLine" \/ band = "OverLimit"
              THEN redline_seconds + delta ELSE redline_seconds

\* flight_log_hours with OverLimit left out of the redline counter
flight_log_hours_mut_overlimit(delta_seconds) ==
    LET band  == m_powerband
        delta == static_cast_int(lround(delta_seconds))
    IN  /\ total_seconds' =
              IF band # "PowerOff" THEN total_seconds + delta ELSE total_seconds
        /\ caution_seconds' =
              IF band = "Caution" THEN caution_seconds + delta ELSE caution_seconds
        /\ redline_seconds' =
              IF band = "RedLine"
              THEN redline_seconds + delta ELSE redline_seconds

\* FlightHours::flight_log_hours(engine, delta_seconds)
flight_log_hours(delta_seconds) ==
    LET band  == m_powerband
        delta == static_cast_int(lround(delta_seconds))
    IN  /\ total_seconds' =
              IF band # "PowerOff" THEN total_seconds + delta ELSE total_seconds
        /\ caution_seconds' =
              IF band = "Caution" THEN caution_seconds + delta ELSE caution_seconds
        /\ redline_seconds' =
              IF band = "RedLine" \/ band = "OverLimit"
              THEN redline_seconds + delta ELSE redline_seconds

hours == total_seconds \div 3600
minutes == (total_seconds % 3600) \div 60
seconds == total_seconds % 60
caution_time == caution_seconds
redline_time == redline_seconds

\* FlightHours::csv_row: the fields of one data row, in column order
csv_row(time_step) ==
    [time_step |-> time_step, total_seconds |-> total_seconds,
     hours |-> hours, minutes |-> minutes, seconds |-> seconds,
     rpm |-> m_filtered_rpm, band |-> m_powerband,
     caution_seconds |-> caution_seconds, redline_seconds |-> redline_seconds]

\* no data row written yet
NoRow ==
    [time_step |-> DNat(0), total_seconds |-> 0, hours |-> 0, minutes |-> 0,
     seconds |-> 0, rpm |-> 0, band |-> "none",
     caution_seconds |-> 0, redline_seconds |-> 0]

(***************************************************************************)
(* main                                                                    *)
(***************************************************************************)
\* const double delta_seconds = 60.0
delta_seconds == DNat(60)
\* const int total_ticks = 50 * 60
total_ticks == 50 * 60
one_minute == 60
one_hour == 60 * one_minute
\* main has not returned
NoExit == -1

\* the policy with >= in place of > in its comparisons
diagnostic_mut_nonstrict(caution_sec, redline_sec) ==
    IF redline_sec >= 4 * one_hour THEN
        [status |-> "SystemCheckSystemFailure", code |-> 2,
         message |-> "SYSTEM CHECK: SYSTEM FAILURE - Excessive time in REDLINE/OVERLIMIT"]
    ELSE IF redline_sec >= 1 * one_hour \/ caution_sec >= 3 * one_hour THEN
        [status |-> "SystemMaintenanceRequired", code |-> 1,
         message |-> "SYSTEM CHECK: MAINTENANCE REQUIRED - Heavy use in CAUTION/REDLINE bands"]
    ELSE
        [status |-> "SystemSuccessful", code |-> 0,
         message |-> "SYSTEM CHECK: SUCCESSFUL - Engine within expected use profile"]

\* the diagnostic policy of main: the Tachometer_Diagnostic assigned to diag
diagnostic(caution_sec, redline_sec) ==
    IF redline_sec > 4 * one_hour THEN
        [status |-> "SystemCheckSystemFailure", code |-> 2,
         message |-> "SYSTEM CHECK: SYSTEM FAILURE - Excessive time in REDLINE/OVERLIMIT"]
    ELSE IF redline_sec > 1 * one_hour \/ caution_sec > 3 * one_hour THEN
        [status |-> "SystemMaintenanceRequired", code |-> 1,
         message |-> "SYSTEM CHECK: MAINTENANCE REQUIRED - Heavy use in CAUTION/REDLINE bands"]
    ELSE
        [status |-> "SystemSuccessful", code |-> 0,
         message |-> "SYSTEM CHECK: SUCCESSFUL - Engine within expected use profile"]

\* the loop condition with <= in place of <
loop_condition_mut(t) == t <= total_ticks

\* for (...; tick < total_ticks; ...)
loop_condition(t) == t < total_ticks

\* flight_log.csv before std::ofstream is constructed
NoFile ==
    [state |-> "unopened", header |-> 0, rows |-> 0, running_rows |-> 0,
     last_row |-> NoRow]

\* EnginePowerModel engine; FlightHours flight_hours; RPMSource rpm_source;
Objects ==
    /\ m_raw_rpm = DNat(0)
    /\ m_filtered_rpm = 0
    /\ m_powerband = "PowerOff"
    /\ total_seconds = 0
    /\ caution_seconds = 0
    /\ redline_seconds = 0
    /\ rng \in {rng_seeded(n) : n \in 0..(NumSeeds - 1)}
    /\ cout_band = <<>>
    /\ last_call = NoCall

Init ==
    /\ Objects
    /\ pc = "open"
    /\ tick = 0
    /\ log_file = NoFile
    /\ cout_final = <<>>
    /\ exit_code = NoExit

\* the failed open with the return statement missing: main goes on
OpenFails_mut_no_return ==
    /\ pc = "open"
    /\ log_file' = [log_file EXCEPT !.state = "failed"]
    /\ pc' = "header"
    /\ UNCHANGED <<tick, rng, engine_vars, flight_vars, cout_final, exit_code,
                   last_call>>

\* std::ofstream log_file{"flight_log.csv"} fails: if (!log_file) return 1
OpenFails ==
    /\ pc = "open"
    /\ log_file' = [log_file EXCEPT !.state = "failed"]
    /\ pc' = "failed"
    /\ exit_code' = 1
    /\ UNCHANGED <<tick, rng, engine_vars, flight_vars, cout_final, last_call>>

\* std::ofstream log_file{"flight_log.csv"} succeeds
OpenSucceeds ==
    /\ pc = "open"
    /\ log_file' = [log_file EXCEPT !.state = "open"]
    /\ pc' = "header"
    /\ UNCHANGED <<tick, rng, engine_vars, flight_vars, cout_final, exit_code,
                   last_call>>

\* flight_hours.csv_header(log_file); then the loop starts with tick = 0
WriteHeader ==
    /\ pc = "header"
    /\ log_file' = [log_file EXCEPT !.header = @ + 1]
    /\ tick' = 0
    /\ pc' = IF loop_condition(0) THEN "drive" ELSE "diag"
    /\ UNCHANGED <<rng, engine_vars, flight_vars, cout_final, exit_code, last_call>>

\* rpm_source.drive_engine(engine): two draws from rng, then the body
DriveEngine ==
    /\ pc = "drive"
    /\ LET p == rng_step(rng)
           u == rng_step(p)
       IN  /\ rng' = u
           /\ drive_engine(p, u)
    /\ pc' = "accumulate"
    /\ UNCHANGED <<tick, flight_vars, log_file, cout_final, exit_code>>

\* flight_hours.flight_log_hours(engine, delta_seconds)
FlightLogHours ==
    /\ pc = "accumulate"
    /\ flight_log_hours(delta_seconds)
    /\ last_call' = [NoCall EXCEPT !.op = "flight_log_hours",
                                   !.delta_seconds = delta_seconds]
    /\ pc' = "row"
    /\ UNCHANGED <<tick, rng, engine_vars, log_file, cout_final, exit_code>>

\* flight_hours.csv_row(log_file, engine, tick * delta_seconds); ++tick; the loop test
CsvRow ==
    /\ pc = "row"
    /\ log_file' = [log_file EXCEPT
                       !.rows = @ + 1,
                       !.running_rows = IF m_powerband # "PowerOff" THEN @ + 1 ELSE @,
                       !.last_row = csv_row(DMulInt(delta_seconds, tick))]
    /\ tick' = tick + 1
    /\ pc' = IF loop_condition(tick + 1) THEN "drive" ELSE "diag"
    /\ UNCHANGED <<rng, engine_vars, flight_vars, cout_final, exit_code, last_call>>

\* the diagnostic block, the three closing lines on std::cout, return 0
Diagnose ==
    /\ pc = "diag"
    /\ LET caution_sec == caution_time
           redline_sec == redline_time
           diag        == diagnostic(caution_sec, redline_sec)
       IN  cout_final' = <<[message |-> diag.message, code |-> diag.code,
                            status |-> diag.status],
                           [caution_sec |-> caution_sec, redline_sec |-> redline_sec],
                           "Simulation Finished. Check flight_log.csv">>
    /\ exit_code' = 0
    /\ pc' = "done"
    /\ UNCHANGED <<tick, rng, engine_vars, flight_vars, log_file, last_call>>

Next ==
    \/ OpenFails
    \/ OpenSucceeds
    \/ WriteHeader
    \/ DriveEngine
    \/ FlightLogHours
    \/ CsvRow
    \/ Diagnose

Spec == Init /\ [][Next]_vars

(***************************************************************************)
(* EngineSpec: the engine and the source as classes, called in any order   *)
(* with arguments over the boundaries of every band and of the int type.   *)
(***************************************************************************)
\* the band limits of the two tables and the top of the generator's ranges
BandLimits ==
    {Idle_min, Idle_max, Climb_min, Climb_max, Cruise_min, Cruise_max,
     Caution_min, Caution_max, RedLine_min, RedLine_max, 900, 11000}

\* integer rpm values handed to the round trip, as doubles
TestRpms ==
    {DNat(n) : n \in 0..MaxRpmLow}
    \cup {DNat(n + k) : n \in BandLimits, k \in {-1, 0, 1}}
    \cup {DNat(997 * k) : k \in 1..12}
    \cup {DNat(n) : n \in {2^15 - 1, 2^15, 2^16, 10^6, 2^30, IntMax - 1, IntMax}}
    \cup {DAdd(DNat(IntMax), DNat(k)) : k \in {1, 2, 2^30, IntMax}}
    \cup {DAdd(DAdd(DNat(IntMax), DNat(IntMax)), DNat(k)) : k \in {1, 2, 7}}

\* angular speeds handed to update_from_rpm directly: zero, fractions of one
\* rpm, halfway values, negative speeds, speeds past the int range
TestOmegas ==
    {DFrac(0, f) : f \in {0, 1, 51, 54, 107}}
    \cup {DNeg(DFrac(0, f)) : f \in {0, 51, 54}}
    \cup {omega_of(DFrac(n, f)) : n \in {999, 3500, 9799, 10200}, f \in {500, 524}}
    \cup {DNeg(omega_of(DNat(n))) : n \in {1, 999, 1000, 9800, 20000, IntMax}}
    \cup {DNeg(omega_of(DAdd(DNat(IntMax), DNat(k)))) : k \in {1, 2}}

\* draws p = k / CanonDen around every threshold of the cascade, and the extremes
TestDraws ==
    {0, CanonDen - 1}
    \cup {(t * CanonDen) \div 100 + k : t \in {5, 20, 45, 80, 92, 98}, k \in {0, 1}}

\* draws u = k / CanonDen within the range: both ends and the middle
TestFractions == {0, CanonDen \div 2, CanonDen - 1}

ClassesInit ==
    /\ Objects
    /\ pc = "classes"
    /\ tick = 0
    /\ log_file = NoFile
    /\ cout_final = <<>>
    /\ exit_code = NoExit

\* engine.update_from_rpm(omega)
CallUpdateFromRpm(omega) ==
    LET e == update_from_rpm(omega)
    IN  /\ m_raw_rpm' = e.raw_rpm
        /\ m_filtered_rpm' = e.filtered_rpm
        /\ m_powerband' = e.powerband
        /\ cout_band' = e.out
        /\ last_call' = [NoCall EXCEPT !.op = "update_from_rpm", !.omega = omega]
        /\ UNCHANGED <<rng, flight_vars, main_vars>>

\* the conversion of drive_engine and the call it makes, for a given rpm:
\* omega = (rpm * 2.0 * pi) / 60.0; engine.update_from_rpm(omega)
CallRoundTrip(rpm) ==
    LET omega == omega_of(rpm)
        e     == update_from_rpm(omega)
    IN  /\ m_raw_rpm' = e.raw_rpm
        /\ m_filtered_rpm' = e.filtered_rpm
        /\ m_powerband' = e.powerband
        /\ cout_band' = e.out
        /\ last_call' = [NoCall EXCEPT !.op = "round_trip", !.rpm = rpm,
                                       !.omega = omega]
        /\ UNCHANGED <<rng, flight_vars, main_vars>>

\* rpm_source.drive_engine(engine) with the generator yielding p and then u
CallDriveEngine(p, u) ==
    /\ drive_engine(p, u)
    /\ rng' = u
    /\ UNCHANGED <<flight_vars, main_vars>>

EngineNext ==
    \/ \E omega \in TestOmegas : CallUpdateFromRpm(omega)
    \/ \E rpm \in TestRpms : CallRoundTrip(rpm)
    \/ \E p \in TestDraws, u \in TestFractions : CallDriveEngine(p, u)

EngineSpec == ClassesInit /\ [][EngineNext]_vars

(***************************************************************************)
(* FlightSpec: FlightHours as a class, fed an engine in any band.          *)
(***************************************************************************)
\* one angular speed per branch of the classifier
BandOmegas ==
    {omega_of(DNat(n)) : n \in {0, 500, 2000, 5000, 8000, 9500, 10000, 10500}}

\* delta_seconds: 60.0, 59.5, 60.25, 0.25 and 30.5
TestDeltas ==
    {DFrac(60, 0), DFrac(59, FxScale \div 2), DFrac(60, FxScale \div 4),
     DFrac(0, FxScale \div 4), DFrac(30, FxScale \div 2)}

\* flight_hours.flight_log_hours(engine, delta)
CallFlightLogHours(delta) ==
    /\ total_seconds + static_cast_int(lround(delta)) <= MaxUnitSeconds
    /\ flight_log_hours(delta)
    /\ last_call' = [NoCall EXCEPT !.op = "flight_log_hours",
                                   !.delta_seconds = delta]
    /\ UNCHANGED <<rng, engine_vars, main_vars>>

FlightNext ==
    \/ \E omega \in BandOmegas : CallUpdateFromRpm(omega)
    \/ \E delta \in TestDeltas : CallFlightLogHours(delta)

FlightSpec == ClassesInit /\ [][FlightNext]_vars

(***************************************************************************)
(* DiagSpec: main at the end of its loop, over final counters on both      *)
(* sides of every threshold of the policy.  The last tick drew 500 rpm.    *)
(***************************************************************************)
\* seconds a counter can hold around k hours: whole ticks of 60 s
AroundHours(k) == {k * one_hour + m * one_minute : m \in {-1, 0, 1}} \cap Nat

FinalCautions == AroundHours(0) \cup AroundHours(3) \cup {10 * one_hour}
FinalRedlines == AroundHours(0) \cup AroundHours(1) \cup AroundHours(4)
                 \cup {5 * one_hour}

DiagInit ==
    /\ rng \in {rng_seeded(n) : n \in 0..(NumSeeds - 1)}
    /\ LET e == update_from_rpm(omega_of(DNat(500)))
       IN  /\ m_raw_rpm = e.raw_rpm
           /\ m_filtered_rpm = e.filtered_rpm
           /\ m_powerband = e.powerband
           /\ cout_band = e.out \o <<"RPMSource drove engine with rpm">>
    /\ caution_seconds \in FinalCautions
    /\ redline_seconds \in FinalRedlines
    /\ total_seconds \in {caution_seconds + redline_seconds,
                          (total_ticks - 1) * one_minute}
    /\ last_call = [NoCall EXCEPT !.op = "flight_log_hours",
                                  !.delta_seconds = delta_seconds]
    /\ pc = "diag"
    /\ tick = total_ticks
    /\ log_file = [state |-> "open", header |-> 1, rows |-> total_ticks,
                   running_rows |-> total_seconds \div one_minute,
                   last_row |-> csv_row(DMulInt(delta_seconds, total_ticks - 1))]
    /\ cout_final = <<>>
    /\ exit_code = NoExit

DiagSpec == DiagInit /\ [][Diagnose]_vars

(***************************************************************************)
(* Properties                                                              *)
(***************************************************************************)
\* an engine call has been made: update_from_rpm ran, directly or from the source
EngineCalled == last_call.op \in {"update_from_rpm", "round_trip", "drive_engine"}

\* the bands the band table assigns to an integer rpm
TableBands(f) ==
    {b \in EnginePowerBand :
        \/ b = "PowerOff"  /\ f <= 999
        \/ b = "Idle"      /\ 1000 <= f /\ f <= 3500
        \/ b = "Climb"     /\ 3501 <= f /\ f <= 6000
        \/ b = "Cruise"    /\ 6001 <= f /\ f <= 9000
        \/ b = "Caution"   /\ 9001 <= f /\ f <= 9799
        \/ b = "RedLine"   /\ 9800 <= f /\ f <= 10200
        \/ b = "OverLimit" /\ f > 10200}

\* C1: in the initial state and after every call of update_from_rpm the stored
\* band is the one band the table assigns to the stored filtered_rpm: at most
\* 999 (zero and negative values too) PowerOff, 1000..3500 Idle, 3501..6000
\* Climb, 6001..9000 Cruise, 9001..9799 Caution, 9800..10200 RedLine, above
\* 10200 OverLimit.
C1_BandMatchesTable == TableBands(m_filtered_rpm) = {m_powerband}

\* C1 witness: a call left filtered_rpm on the upper RedLine boundary
C1_Witness ==
    /\ EngineCalled
    /\ m_filtered_rpm = 10200
    /\ m_powerband = "RedLine"

\* delta_seconds rounded to the nearest integer, halves away from zero
RoundedSeconds(x) ==
    LET units == x.mag[1] + x.mag[2] * Limb
    IN  (2 * units + FxScale) \div (2 * FxScale)

C2_Step ==
    LET d == RoundedSeconds(last_call'.delta_seconds)
        b == m_powerband
    IN  last_call'.op = "flight_log_hours" =>
          /\ total_seconds' = total_seconds + (IF b # "PowerOff" THEN d ELSE 0)
          /\ caution_seconds' = caution_seconds + (IF b = "Caution" THEN d ELSE 0)
          /\ redline_seconds' =
                redline_seconds + (IF b \in {"RedLine", "OverLimit"} THEN d ELSE 0)

\* C2: one call of flight_log_hours with band b and d = round(delta_seconds)
\* adds d to total_seconds iff b is not PowerOff, d to caution_seconds iff b is
\* Caution, d to redline_seconds iff b is RedLine or OverLimit, and leaves every
\* other counter as it was.
C2_CountersChangeByBand == [][C2_Step]_vars

\* C2 witness: calls in the OverLimit band and in other bands have been logged
C2_Witness ==
    /\ last_call.op = "flight_log_hours"
    /\ m_powerband = "OverLimit"
    /\ redline_seconds = 60
    /\ caution_seconds = 31
    /\ total_seconds = 151

\* the verdict the policy names for a pair of final counters
PolicyCode(caution, redline) ==
    IF redline > 14400 THEN 2
    ELSE IF redline > 3600 \/ caution > 10800 THEN 1
    ELSE 0

PolicyStatus(code) ==
    CASE code = 2 -> "SystemCheckSystemFailure"
      [] code = 1 -> "SystemMaintenanceRequired"
      [] code = 0 -> "SystemSuccessful"

\* C3: the end-of-run verdict is chosen first match wins: redline_seconds above
\* 14400 is SystemFailure with code 2 whatever caution_seconds is; otherwise
\* redline_seconds above 3600 or caution_seconds above 10800 is
\* MaintenanceRequired with code 1; otherwise Successful with code 0; the
\* comparisons are strict and the code goes with the status.
C3_VerdictFollowsPolicy ==
    pc = "done" =>
      /\ cout_final[1].code = PolicyCode(caution_seconds, redline_seconds)
      /\ cout_final[1].status = PolicyStatus(cout_final[1].code)

\* C3 witness: a run ended with exactly 14400 redline seconds and was not a failure
C3_Witness ==
    /\ pc = "done"
    /\ redline_seconds = 14400
    /\ caution_seconds = 10800
    /\ cout_final[1].code = 1

\* steps main has left at most: three per remaining tick, then the diagnostic
StepsLeft ==
    CASE pc = "open"       -> 3 * 3000 + 3
      [] pc = "header"     -> 3 * 3000 + 2
      [] pc = "drive"      -> 3 * (3000 - tick) + 1
      [] pc = "accumulate" -> 3 * (3000 - tick)
      [] pc = "row"        -> 3 * (3000 - tick) - 1
      [] pc = "diag"       -> 1
      [] OTHER             -> 0

\* what C4 asks of each state of a run
C4_State ==
    /\ log_file.header <= 1 /\ log_file.rows <= 3000 /\ tick <= 3000
    /\ log_file.rows > 0 => log_file.header = 1
    /\ pc \in {"drive", "accumulate", "row"} => log_file.rows = tick /\ tick < 3000
    /\ pc = "accumulate" => last_call.op = "drive_engine"
    /\ pc = "row" => last_call.op = "flight_log_hours"
    /\ pc \in {"diag", "done"} =>
          log_file.header = 1 /\ log_file.rows = 3000 /\ tick = 3000
    /\ StepsLeft >= 0
    /\ StepsLeft = 0 <=> pc \in {"done", "failed"}

\* C4: a run whose sink opens writes the header exactly once and before any
\* data row, performs its ticks as drive, accumulate, row in that order, has
\* written exactly 3000 data rows when it reaches the diagnostic, never more,
\* and terminates: every step of main brings its return nearer, by a measure
\* that is zero exactly when main has returned (main makes no blocking call, so
\* its next step is always taken).
C4_RunCompletes == [][C4_State /\ C4_State' /\ StepsLeft' < StepsLeft]_vars

\* C4 witness: a run finished with its 3000 rows
C4_Witness == pc = "done" /\ log_file.rows = 3000 /\ log_file.header = 1

\* C5: when flight_log.csv cannot be opened main returns 1 before the loop: no
\* tick, no engine or counter update, no header, no data row, no verdict; a
\* run that returns otherwise returns 0.
C5_OpenFailureAborts ==
    /\ log_file.state = "failed" =>
          /\ pc = "failed"
          /\ exit_code = 1
          /\ tick = 0
          /\ log_file.header = 0
          /\ log_file.rows = 0
          /\ cout_final = <<>>
          /\ last_call = NoCall
          /\ m_filtered_rpm = 0 /\ m_powerband = "PowerOff"
          /\ total_seconds = 0 /\ caution_seconds = 0 /\ redline_seconds = 0
    /\ log_file.state # "failed" =>
          /\ exit_code \in {NoExit, 0}
          /\ exit_code = 0 <=> pc = "done"

\* C5 witness: the open failed
C5_Witness == log_file.state = "failed" /\ exit_code = 1

\* the band each range of the generator stands for
RangeTable ==
    {<<0, 900, "PowerOff">>, <<1000, 3500, "Idle">>, <<3501, 6000, "Climb">>,
     <<6001, 9000, "Cruise">>, <<9001, 9799, "Caution">>,
     <<9800, 10200, "RedLine">>, <<10201, 11000, "OverLimit">>}

\* C6: whichever of its seven ranges drive_engine selects and whatever rpm it
\* draws from it, the classifier yields the band the range stands for.
C6_RangesMatchBands ==
    last_call.op = "drive_engine" =>
        <<last_call.rpm_min, last_call.rpm_max, m_powerband>> \in RangeTable

\* C6 witness: a draw at the top of the Caution range was rounded up to 9799
C6_Witness ==
    /\ last_call.op = "drive_engine"
    /\ last_call.rpm_max = 9799
    /\ m_filtered_rpm = 9799
    /\ m_powerband = "Caution"

\* the band-entry lines among the lines of the latest engine call
BandLines == {i \in DOMAIN cout_band : cout_band[i] \in BandMessages}

\* the band a band-entry line names
MessageBand(line) ==
    CASE line = "RPM Below Idle: Engine not in normal operating band." -> "PowerOff"
      [] line = "Idle: Value is within range." -> "Idle"
      [] line = "Climb: Value is within range." -> "Climb"
      [] line = "Cruise: Value is within range." -> "Cruise"
      [] line = "Caution: Engine is reaching Redline." -> "Caution"
      [] line = "Warning: Engine may overheat." -> "RedLine"
      [] line = "WARNING: RPM ABOVE Defined RedLine (OverLimit)." -> "OverLimit"

\* C7 as stated: every call of update_from_rpm delivers exactly one band-entry
\* message, whichever band results, PowerOff at filtered_rpm 0 included.
C7_AlwaysOneMessage == EngineCalled => Cardinality(BandLines) = 1

\* C7 amended: every call of update_from_rpm delivers exactly one band-entry
\* message, naming the band set, unless filtered_rpm is 0, when it delivers none.
C7_OneMessageUnlessZero ==
    EngineCalled =>
        IF m_filtered_rpm = 0 THEN BandLines = {}
        ELSE /\ Cardinality(BandLines) = 1
             /\ \A i \in BandLines : MessageBand(cout_band[i]) = m_powerband

\* C7 witness: a call that left filtered_rpm 0 and printed no band-entry line
C7_Witness ==
    /\ last_call.op = "update_from_rpm"
    /\ m_filtered_rpm = 0
    /\ m_powerband = "PowerOff"
    /\ cout_band = <<>>

\* the stored filtered_rpm equals the rpm the round trip started from
RoundTripExact == m_filtered_rpm >= 0 /\ DNat(m_filtered_rpm) = last_call.rpm

\* C8 as stated: for any integer rpm >= 0 the classifier, given rpm * 2 * pi / 60,
\* stores filtered_rpm = rpm.
C8_RoundTripAnyRpm == last_call.op = "round_trip" => RoundTripExact

\* C8 amended: for any integer rpm with 0 <= rpm <= 2147483647, the largest int,
\* the classifier, given rpm * 2 * pi / 60, stores filtered_rpm = rpm.
C8_RoundTripWithinInt ==
    (last_call.op = "round_trip" /\ DLeq(last_call.rpm, DNat(IntMax)))
        => RoundTripExact

\* C8 witness: the round trip of the largest int
C8_Witness ==
    /\ last_call.op = "round_trip"
    /\ last_call.rpm = DNat(IntMax)
    /\ m_filtered_rpm = IntMax

C9_Step ==
    /\ total_seconds' - total_seconds \in {0, 60}
    /\ caution_seconds' - caution_seconds \in {0, 60}
    /\ redline_seconds' - redline_seconds \in {0, 60}
    /\ flight_vars' # flight_vars => pc = "accumulate" /\ pc' = "row"

\* what C9 asks of each state of a run
C9_State ==
    /\ pc = "open" =>
          total_seconds = 0 /\ caution_seconds = 0 /\ redline_seconds = 0
    /\ total_seconds >= 0 /\ caution_seconds >= 0 /\ redline_seconds >= 0
    /\ pc = "done" =>
          /\ cout_final[2].caution_sec = log_file.last_row.caution_seconds
          /\ cout_final[2].redline_sec = log_file.last_row.redline_seconds
          /\ caution_seconds = log_file.last_row.caution_seconds
          /\ redline_seconds = log_file.last_row.redline_seconds
          /\ total_seconds = log_file.last_row.total_seconds

\* C9: over a run the three counters start at zero, are never negative, change
\* per step by 0 or by exactly 60 and only in the accumulate call of a tick,
\* and are unchanged after the loop, so that the verdict reports the caution
\* and redline values of the last data row.
C9_CountersMonotone == [][C9_State /\ C9_State' /\ C9_Step]_vars

\* C9 witness: a finished run that spent time in the caution and redline bands
C9_Witness ==
    /\ pc = "done"
    /\ caution_seconds > 0
    /\ redline_seconds > 0
    /\ cout_final[2].caution_sec = caution_seconds

\* accumulate calls made so far
TicksAccumulated == tick + (IF pc = "row" THEN 1 ELSE 0)

\* ticks so far whose band was not PowerOff: the rows written with such a band,
\* and the tick whose row is still to be written
TicksRunning ==
    log_file.running_rows
        + (IF pc = "row" /\ m_powerband # "PowerOff" THEN 1 ELSE 0)

\* C10: after n ticks, caution_seconds + redline_seconds <= total_seconds <=
\* 60 n <= 180000, and total_seconds is 60 times the number of ticks so far
\* whose band was not PowerOff.
C10_TotalBoundsParts ==
    /\ TicksAccumulated \in 0..3000
    /\ caution_seconds + redline_seconds <= total_seconds
    /\ total_seconds <= 60 * TicksAccumulated
    /\ total_seconds <= 180000
    /\ total_seconds = 60 * TicksRunning

\* C10 witness: a finished run with idle, caution and redline time and some
\* ticks below idle
C10_Witness ==
    /\ pc = "done"
    /\ caution_seconds > 0
    /\ redline_seconds > 0
    /\ total_seconds > caution_seconds + redline_seconds
    /\ total_seconds < 180000

====
